---- MODULE Spec2Model ----
EXTENDS Integers, Sequences, FiniteSets, TLC

\* ---------------------------------------------------------------------
\* Model of src/app/utils/chatbot.py: the chat cycle `chat`, the pipeline
\* call `get_response`, citation grouping and transcript rendering.
\* ---------------------------------------------------------------------

\* Bounds of the model
MaxCycles == 7
MaxDocs == 3

\* st.chat_input returns None when nothing was submitted
NoneQ == "<None>"
Queries == {NoneQ, "", "  ", "q"}
Answers == {"a1", "a2"}
NoAnswer == "<no answer>"

\* Retrieved document metadata; a metadata map may lack 'source' or 'page'
Sources == {"a", "b"}
Pages == {1, 2, 3}
ChatDocs == {[source |-> "a", page |-> 1], [source |-> "a"], [page |-> 1]}
Contexts == {<<>>} \cup {<<d>> : d \in ChatDocs}
            \cup {<<d, e>> : d \in ChatDocs, e \in ChatDocs}

\* HumanMessage(content=q) / AIMessage(content=a)
HumanMessage(q) == [type |-> "Human", content |-> q]
AIMessage(a) == [type |-> "AI", content |-> a]

IsSubmittedNoneOnly(q) == q # NoneQ

\* if user_query is not None and user_query != ""
IsSubmitted(q) == q # NoneQ /\ q # ""

AppendExchangePrepended(h, q, a) == <<HumanMessage(q), AIMessage(a)>> \o h

AppendExchangeSwapped(h, q, a) == h \o <<AIMessage(a), HumanMessage(q)>>

\* chat_history + [HumanMessage(content=user_query), AIMessage(content=response)]
AppendExchange(h, q, a) == h \o <<HumanMessage(q), AIMessage(a)>>

PipelineHistoryLast10(h) ==
  IF Len(h) > 10 THEN SubSeq(h, Len(h) - 9, Len(h)) ELSE h

\* get_response passes the history to chain.invoke unchanged
PipelineHistory(h) == h

AddPageOverwrite(acc, s, p) ==
  IF \E i \in 1..Len(acc) : acc[i][1] = s
  THEN LET i == CHOOSE j \in 1..Len(acc) : acc[j][1] = s
       IN [acc EXCEPT ![i] = <<s, <<p>>>>]
  ELSE Append(acc, <<s, <<p>>>>)

\* metadata_dict[metadata['source']].append(metadata['page']) on a
\* defaultdict(list) kept as a sequence of <<source, pages>> in insertion order
AddPage(acc, s, p) ==
  IF \E i \in 1..Len(acc) : acc[i][1] = s
  THEN LET i == CHOOSE j \in 1..Len(acc) : acc[j][1] = s
       IN [acc EXCEPT ![i] = <<s, Append(acc[i][2], p)>>]
  ELSE Append(acc, <<s, <<p>>>>)

\* the loop over [doc.metadata for doc in context]; a missing key raises KeyError
RECURSIVE GroupFrom(_, _)
GroupFrom(docs, acc) ==
  IF docs = <<>> THEN [err |-> FALSE, groups |-> acc]
  ELSE LET m == Head(docs) IN
       IF "source" \notin DOMAIN m THEN [err |-> TRUE, groups |-> <<>>]
       ELSE IF "page" \notin DOMAIN m THEN [err |-> TRUE, groups |-> <<>>]
       ELSE GroupFrom(Tail(docs), AddPage(acc, m.source, m.page))

Min2(n) == IF n < 2 THEN n ELSE 2

Complete(m) == "source" \in DOMAIN m /\ "page" \in DOMAIN m
GroupSkipIncomplete(docs) == GroupFrom(SelectSeq(docs, Complete), <<>>)

Group(docs) == GroupFrom(docs, <<>>)

RenderNewOnly(h) == [i \in 1..Min2(Len(h)) |->
                [role |-> IF h[Len(h) - Min2(Len(h)) + i].type = "AI" THEN "AI" ELSE "Human",
                 content |-> h[Len(h) - Min2(Len(h)) + i].content]]

\* for message in chat_history: st.chat_message("AI" if AIMessage else "Human")
Render(h) == [i \in 1..Len(h) |->
                [role |-> IF h[i].type = "AI" THEN "AI" ELSE "Human",
                 content |-> h[i].content]]

VARIABLES
  pc,            \* "idle" or "awaiting" (chain.invoke in progress)
  hist,          \* the caller's chat history
  prevHist,      \* the history the current/last cycle received
  query,         \* user_query of the current/last cycle
  calls,         \* get_response calls in the current/last cycle
  invokes,       \* chain.invoke calls in the current/last cycle
  invokeInput,   \* 'input' passed to chain.invoke
  invokeHistory, \* 'chat_history' passed to chain.invoke
  answer,        \* response["answer"] of the last invocation
  context,       \* response["context"] metadata of the last invocation
  outcome,       \* "none", "pending", "ok", "build_error", "pipeline_error",
                 \* "key_error"
  hasReturn,     \* the last cycle returned a history
  returned,      \* the history the last cycle returned
  rendered,      \* messages rendered by the last cycle
  sidebar,       \* grouped citations of the last cycle
  log,           \* answered turns <<question, answer>> in order
  turns          \* cycles run

vars == <<pc, hist, prevHist, query, calls, invokes, invokeInput, invokeHistory, answer,
          context, outcome, hasReturn, returned, rendered, sidebar, log, turns>>

Init ==
  /\ pc = "idle"
  /\ hist = <<>>
  /\ prevHist = <<>>
  /\ query = NoneQ
  /\ calls = 0
  /\ invokes = 0
  /\ invokeInput = NoneQ
  /\ invokeHistory = <<>>
  /\ answer = NoAnswer
  /\ context = <<>>
  /\ outcome = "none"
  /\ hasReturn = FALSE
  /\ returned = <<>>
  /\ rendered = <<>>
  /\ sidebar = <<>>
  /\ log = <<>>
  /\ turns = 0

\* chat(): user_query = st.chat_input(...); the guard of line 73.
\* Without a query the history is rendered and returned unchanged; with one,
\* get_response is called and the cycle blocks in it.
ChatInput ==
  /\ pc = "idle"
  /\ turns < MaxCycles
  /\ \E q \in Queries :
       /\ query' = q
       /\ prevHist' = hist
       /\ context' = <<>>
       /\ sidebar' = <<>>
       /\ answer' = NoAnswer
       /\ IF IsSubmitted(q)
          THEN /\ pc' = "awaiting"
               /\ calls' = 1
               /\ invokes' = 0
               /\ invokeInput' = NoneQ
               /\ invokeHistory' = <<>>
               /\ outcome' = "pending"
               /\ hasReturn' = FALSE
               /\ returned' = <<>>
               /\ rendered' = <<>>
               /\ UNCHANGED <<hist, log, turns>>
          ELSE /\ pc' = "idle"
               /\ calls' = 0
               /\ invokes' = 0
               /\ outcome' = "ok"
               /\ hasReturn' = TRUE
               /\ returned' = hist
               /\ rendered' = Render(hist)
               /\ turns' = turns + 1
               /\ invokeInput' = NoneQ
               /\ invokeHistory' = <<>>
               /\ UNCHANGED <<hist, log>>

RespondFailFallback ==
  /\ pc = "awaiting"
  /\ pc' = "idle"
  /\ outcome' = "pipeline_error"
  /\ hasReturn' = TRUE
  /\ returned' = AppendExchange(prevHist, query, "fallback")
  /\ rendered' = Render(AppendExchange(prevHist, query, "fallback"))
  /\ hist' = AppendExchange(prevHist, query, "fallback")
  /\ invokes' = 1
  /\ invokeInput' = query
  /\ invokeHistory' = PipelineHistory(prevHist)
  /\ turns' = turns + 1
  /\ UNCHANGED <<prevHist, query, calls, answer, context, sidebar, log>>

\* get_context_retriever_chain raises (load_dotenv, ChatGoogleGenerativeAI
\* construction, as_retriever): chain.invoke is never called and nothing
\* catches the exception, so chat returns no history.
RespondBuildFail ==
  /\ pc = "awaiting"
  /\ pc' = "idle"
  /\ outcome' = "build_error"
  /\ hasReturn' = FALSE
  /\ returned' = <<>>
  /\ rendered' = <<>>
  /\ turns' = turns + 1
  /\ UNCHANGED <<hist, prevHist, query, calls, invokes, invokeInput,
                 invokeHistory, answer, context, sidebar, log>>

\* chain.invoke({"input": question, "chat_history": chat_history}) raises
\* (LLM, embedding or retrieval failure): nothing in get_response or chat
\* catches it, so chat returns no history.
RespondFail ==
  /\ pc = "awaiting"
  /\ pc' = "idle"
  /\ invokes' = 1
  /\ invokeInput' = query
  /\ invokeHistory' = PipelineHistory(prevHist)
  /\ outcome' = "pipeline_error"
  /\ hasReturn' = FALSE
  /\ returned' = <<>>
  /\ rendered' = <<>>
  /\ turns' = turns + 1
  /\ UNCHANGED <<hist, prevHist, query, calls, answer, context, sidebar, log>>

\* chain.invoke returns answer and context; history is extended, citations
\* grouped (KeyError on missing metadata) and the history rendered.
RespondOk ==
  /\ pc = "awaiting"
  /\ \E a \in Answers, ctx \in Contexts :
       LET newH == AppendExchange(prevHist, query, a)
           g == Group(ctx)
       IN /\ pc' = "idle"
          /\ invokes' = 1
          /\ invokeInput' = query
          /\ invokeHistory' = PipelineHistory(prevHist)
          /\ answer' = a
          /\ context' = ctx
          /\ turns' = turns + 1
          /\ IF g.err
             THEN /\ outcome' = "key_error"
                  /\ hasReturn' = FALSE
                  /\ returned' = <<>>
                  /\ rendered' = <<>>
                  /\ sidebar' = <<>>
                  /\ UNCHANGED <<hist, log>>
             ELSE /\ outcome' = "ok"
                  /\ hasReturn' = TRUE
                  /\ returned' = newH
                  /\ rendered' = Render(newH)
                  /\ sidebar' = g.groups
                  /\ hist' = newH
                  /\ log' = Append(log, <<query, a>>)
  /\ UNCHANGED <<prevHist, query, calls>>

ChatRespond == RespondBuildFail \/ RespondFail \/ RespondOk

Next == ChatInput \/ ChatRespond

Spec == Init /\ [][Next]_vars

\* Citation grouping applied to one retrieved context (complete metadata)
GroupDocs == [source : Sources, page : Pages]
DocSeqs == UNION {[1..n -> GroupDocs] : n \in 0..MaxDocs}

GroupInit ==
  /\ pc = "idle"
  /\ hist = <<>>
  /\ prevHist = <<>>
  /\ query = NoneQ
  /\ calls = 0
  /\ invokes = 0
  /\ invokeInput = NoneQ
  /\ invokeHistory = <<>>
  /\ answer = NoAnswer
  /\ context \in DocSeqs
  /\ outcome = "none"
  /\ hasReturn = FALSE
  /\ returned = <<>>
  /\ rendered = <<>>
  /\ sidebar = <<>>
  /\ log = <<>>
  /\ turns = 0

GroupApply ==
  /\ outcome = "none"
  /\ sidebar' = Group(context).groups
  /\ outcome' = "ok"
  /\ UNCHANGED <<pc, hist, prevHist, query, calls, invokes, invokeInput, invokeHistory,
                 answer, context, hasReturn, returned, rendered, log, turns>>

GroupNext == GroupApply

GroupSpec == GroupInit /\ [][GroupNext]_vars

\* ---------------------------------------------------------------------
\* Properties
\* ---------------------------------------------------------------------

HasIncomplete(c) == \E i \in 1..Len(c) : ~Complete(c[i])

IsPrefix(a, b) == Len(a) <= Len(b) /\ SubSeq(b, 1, Len(a)) = a

\* C1 (as stated): a cycle that accepts question Q and gets answer A returns
\* H followed by exactly HumanMessage(Q) then AIMessage(A), of length len(H)+2.
C1_Original ==
  [][(pc = "awaiting" /\ pc' = "idle" /\ answer' # NoAnswer) =>
       /\ hasReturn'
       /\ Len(returned') = Len(prevHist) + 2]_vars

\* C1 (amended): a cycle that accepts question Q, gets answer A and whose
\* retrieved documents all carry 'source' and 'page' returns H followed by
\* exactly HumanMessage(Q) then AIMessage(A), of length len(H)+2.
C1_AppendsExchange ==
  [][(pc = "awaiting" /\ pc' = "idle" /\ answer' # NoAnswer
      /\ ~HasIncomplete(context')) =>
       /\ hasReturn'
       /\ Len(returned') = Len(prevHist) + 2
       /\ SubSeq(returned', 1, Len(prevHist)) = prevHist
       /\ returned'[Len(prevHist) + 1] = [type |-> "Human", content |-> query]
       /\ returned'[Len(prevHist) + 2] = [type |-> "AI", content |-> answer']]_vars

C1_Witness == outcome = "ok" /\ calls = 1 /\ Len(prevHist) >= 2

\* C2: input None, "" or whitespace-only does not invoke the pipeline and the
\* cycle returns the input history unchanged.
C2_BlankInputNoInvoke ==
  [][(pc = "idle" /\ query' \in {NoneQ, "", "  "} /\ turns < MaxCycles) =>
       /\ calls' = 0
       /\ pc' = "idle"
       /\ hasReturn'
       /\ returned' = hist]_vars

\* C3: after completed cycles from an empty history, the history alternates
\* Human/AI and each AI message holds the answer to the question before it.
C3_Alternates ==
  /\ Len(hist) = 2 * Len(log)
  /\ \A k \in 1..Len(log) :
       /\ hist[2 * k - 1] = [type |-> "Human", content |-> log[k][1]]
       /\ hist[2 * k] = [type |-> "AI", content |-> log[k][2]]
  /\ \A i \in 1..Len(hist) - 1 : hist[i].type # hist[i + 1].type

C3_Witness == Len(log) >= 2

\* C4: history is append-only; the history a cycle receives is a prefix of
\* the one it returns.
C4_AppendOnly ==
  [][/\ IsPrefix(hist, hist')
     /\ (hasReturn' => IsPrefix(prevHist', returned'))]_vars

C4_Witness == hasReturn /\ calls = 1 /\ Len(hist) >= 4

\* C5: grouping maps each distinct source to its pages in retrieval order,
\* duplicates kept, sources in order of first appearance; the example
\* [("a",1),("b",2),("a",3)] groups to {"a": [1,3], "b": [2]}.
GroupExample == <<[source |-> "a", page |-> 1], [source |-> "b", page |-> 2],
                  [source |-> "a", page |-> 3]>>

C5_Grouping ==
  outcome = "ok" =>
    LET d == context
        g == sidebar
        Srcs == {d[i].source : i \in 1..Len(d)}
        First(s) == CHOOSE i \in 1..Len(d) :
                      d[i].source = s /\ \A j \in 1..i - 1 : d[j].source # s
        Idx(s) == SelectSeq([i \in 1..Len(d) |-> i], LAMBDA i : d[i].source = s)
        PagesOf(s) == [k \in 1..Len(Idx(s)) |-> d[Idx(s)[k]].page]
    IN /\ Len(g) = Cardinality(Srcs)
       /\ {g[i][1] : i \in 1..Len(g)} = Srcs
       /\ \A i \in 1..Len(g) : g[i][2] = PagesOf(g[i][1])
       /\ \A i, j \in 1..Len(g) : i < j => First(g[i][1]) < First(g[j][1])
       /\ (d = GroupExample => g = <<<<"a", <<1, 3>>>>, <<"b", <<2>>>>>>)

C5_Witness == outcome = "ok" /\ context = GroupExample

\* C6: a failing pipeline call propagates: no retry, no fallback answer, and
\* the caller's history is not extended.
C6_FailurePropagates ==
  [][(pc = "awaiting" /\ outcome' = "pipeline_error") =>
       /\ pc' = "idle"
       /\ calls' = 1
       /\ invokes' = 1
       /\ ~hasReturn'
       /\ hist' = hist]_vars

C6_Witness == outcome = "pipeline_error" /\ Len(hist) >= 2

\* C7: a retrieved document lacking 'source' or 'page' makes grouping raise
\* KeyError out of chat: no history is returned although the answer was got.
C7_MissingMetadataRaises ==
  (pc = "idle" /\ calls = 1 /\ outcome \notin {"build_error", "pipeline_error"}
   /\ HasIncomplete(context))
    => /\ outcome = "key_error"
       /\ answer # NoAnswer
       /\ ~hasReturn
       /\ hist = prevHist

C7_Witness == outcome = "key_error" /\ Len(context) = 2 /\ Complete(context[1])

\* C8 (as stated): the loop leaves idle only on a non-empty input, invokes
\* the pipeline at most once per cycle, and returns to idle only after the
\* response is obtained and the history updated.
C8_Original ==
  [][/\ (pc = "idle" /\ pc' = "awaiting") => IsSubmitted(query') /\ calls' = 1
     /\ calls' <= 1 /\ invokes' <= 1
     /\ (pc = "awaiting" /\ pc' = "awaiting") => calls' = calls
     /\ (pc = "awaiting" /\ pc' = "idle") =>
          outcome' = "ok" /\ Len(hist') = Len(hist) + 2]_vars

\* C8 (amended): as above, except that the return to idle happens either
\* with the response obtained and the history extended by one exchange, or
\* with an uncaught exception (chain construction failure, pipeline failure
\* or KeyError) and the history
\* unchanged.
C8_TwoStateLoop ==
  [][/\ (pc = "idle" /\ pc' = "awaiting") =>
          query' \notin {NoneQ, ""} /\ calls' = 1 /\ invokes' = 0
     /\ calls' <= 1 /\ invokes' <= 1
     /\ (pc = "awaiting" /\ pc' = "awaiting") => calls' = calls
     /\ (pc = "awaiting" /\ pc' = "idle") =>
          \/ /\ outcome' = "ok"
             /\ IsPrefix(hist, hist')
             /\ Len(hist') = Len(hist) + 2
             /\ hist'[Len(hist) + 1] = [type |-> "Human", content |-> query']
             /\ hist'[Len(hist) + 2] = [type |-> "AI", content |-> answer']
          \/ outcome' \in {"build_error", "pipeline_error", "key_error"}
             /\ hist' = hist]_vars

C8_Witness == pc = "awaiting" /\ Len(hist) >= 2

\* C9: every cycle renders each message of the returned history once, in
\* order, with role "AI" for AIMessage and "Human" otherwise.
C9_RendersHistory ==
  hasReturn =>
    /\ Len(rendered) = Len(returned)
    /\ \A i \in 1..Len(returned) :
         /\ rendered[i].content = returned[i].content
         /\ rendered[i].role = IF returned[i].type = "AI" THEN "AI" ELSE "Human"

C9_Witness == hasReturn /\ calls = 0 /\ Len(returned) >= 4

\* C10: the pipeline gets the question as 'input' and the whole prior history
\* (without the question, untruncated) as 'chat_history', of length
\* 2 per answered turn.
C10_WholeHistory ==
  [][(pc = "awaiting" /\ invokes' = 1) =>
       /\ invokeInput' = query
       /\ invokeHistory' = hist
       /\ Len(invokeHistory') = 2 * Len(log)]_vars

C10_Witness == invokes = 1 /\ Len(invokeHistory) > 10

====
